---- MODULE Spec2Model ----
(***************************************************************************)
(* Task manager HTTP API (Flask + MongoDB): the users and tasks            *)
(* collections, the register/login handlers and the task CRUD handlers,    *)
(* each handler together with the service and model methods it calls.      *)
(*                                                                         *)
(* Python values are modelled as follows.                                  *)
(*   Optional[x]     a sequence of length 0 (None) or 1 (<<x>>)            *)
(*   str (title)     a sequence of one-character strings, so that strip()  *)
(*                   and len() are computed                                *)
(*   ObjectId        a natural number; its str() form and the strings a    *)
(*                   client sends in a path are records [hex, n], hex      *)
(*                   telling whether the text is 24 hexadecimal digits     *)
(*   dict / document a record (a function on field names)                  *)
(*   exception       a record [type, message, status_code]                 *)
(***************************************************************************)
EXTENDS Integers, Sequences, FiniteSets, TLC

VARIABLES
    users,        \* mongo.db.users: set of documents
    nextUserOid,  \* next ObjectId the store assigns in users
    reg,          \* in-flight POST /register requests, one per worker
    upd,          \* in-flight TaskService.update_task calls, one per worker
    tasks,        \* mongo.db.tasks: set of documents
    nextTaskOid,  \* next ObjectId the store assigns in tasks
    creator,      \* history: ObjectId of a stored task -> identity that created it
    fresh,        \* history: ObjectId of a task no PUT/PATCH/DELETE has named since
                  \* its creation -> the request body it was created with
    resp          \* the last request handled and its outcome

vars == <<users, nextUserOid, reg, upd, tasks, nextTaskOid, creator, fresh, resp>>

(***************************************************************************)
(* Bounds                                                                  *)
(***************************************************************************)
MaxTasks == 2
MaxUsers == 2
NumWorkers == 2

(***************************************************************************)
(* Values                                                                  *)
(***************************************************************************)
Str(oid) == [hex |-> TRUE, n |-> oid]
Malformed == [hex |-> FALSE, n |-> 0]
NoId == [hex |-> FALSE, n |-> 1]

InvalidId(s) == ~s.hex
ObjectId(s) == s.n

NoExc == [type |-> "none", message |-> "", status_code |-> 0]
CustomException(message, status_code) ==
    [type |-> "CustomException", message |-> message, status_code |-> status_code]
PyError(type) == [type |-> type, message |-> "", status_code |-> 0]

Get(data, key) == IF key \in DOMAIN data THEN <<data[key]>> ELSE <<>>
GetDefault(data, key, default) == IF key \in DOMAIN data THEN data[key] ELSE default

Restrict(f, D) == [k \in D |-> f[k]]

\* str.strip(): leading and trailing whitespace removed
Whitespace == {" "}
RECURSIVE lstrip(_)
lstrip(s) == IF s # <<>> /\ Head(s) \in Whitespace THEN lstrip(Tail(s)) ELSE s
RECURSIVE rstrip(_)
rstrip(s) ==
    IF s # <<>> /\ s[Len(s)] \in Whitespace THEN rstrip(SubSeq(s, 1, Len(s) - 1)) ELSE s
strip(s) == rstrip(lstrip(s))

(***************************************************************************)
(* app/utils/validators.py                                                 *)
(***************************************************************************)
allowed_statuses == {"pending", "in-progress", "completed"}

\* title is Optional[str]
validate_task_data(title, status) ==
    IF title = <<>> \/ title[1] = <<>> \/ Len(strip(title[1])) < 3
    THEN FALSE
    ELSE status \in allowed_statuses

(***************************************************************************)
(* The document store: equality filters over a collection                  *)
(***************************************************************************)
Matches(doc, filter) == \A k \in DOMAIN filter : k \in DOMAIN doc /\ doc[k] = filter[k]
find(coll, filter) == {d \in coll : Matches(d, filter)}
find_one(coll, filter) ==
    LET m == find(coll, filter)
    IN  IF m = {} THEN <<>> ELSE <<CHOOSE d \in m : \A e \in m : d._id <= e._id>>

\* the documents of a cursor, in the store's natural (insertion) order
RECURSIVE Ordered(_)
Ordered(S) ==
    IF S = {} THEN <<>>
    ELSE LET d == CHOOSE x \in S : \A e \in S : x._id <= e._id
         IN  <<d>> \o Ordered(S \ {d})

\* Mutant: the document is rebuilt from the update, an absent description
\* falling back to its default.
Merge_defaults(doc, updates) ==
    [k \in DOMAIN doc \cup DOMAIN updates |->
        IF k \in DOMAIN updates THEN updates[k]
        ELSE IF k = "description" THEN ""
        ELSE doc[k]]

\* {'$set': updates} applied to one document
Merge(doc, updates) ==
    [k \in DOMAIN doc \cup DOMAIN updates |->
        IF k \in DOMAIN updates THEN updates[k] ELSE doc[k]]

(***************************************************************************)
(* app/__init__.py: the boundary                                           *)
(***************************************************************************)
\* names bound at module level in app/__init__.py
InitModuleNames ==
    {"logging", "uuid", "Flask", "g", "JWTManager", "PyMongo", "Limiter",
     "get_remote_address", "Config", "CustomException", "mongo", "jwt", "limiter",
     "RequestIDFilter", "create_app"}

\* status the client receives when a handler raised exc
handle_global_error(exc) ==
    IF "jsonify" \notin InitModuleNames
    THEN 500    \* NameError inside the error handler: the server answers 500
    ELSE IF exc.type = "CustomException" THEN exc.status_code ELSE 500

\* g.request_id, which set_request_id draws before each request
RequestId == "uuid4"
\* the JSON object handle_global_error builds for exc
ErrorJson(exc) ==
    IF exc.type = "CustomException"
    THEN [error |-> exc.message, status_code |-> exc.status_code, request_id |-> RequestId]
    ELSE [error |-> "Internal Server Error", status_code |-> 500, request_id |-> RequestId]
\* JSON body the client receives when a handler raised exc (Optional: the
\* 500 of the server itself carries no JSON)
handle_global_error_body(exc) ==
    IF "jsonify" \notin InitModuleNames THEN <<>> ELSE <<ErrorJson(exc)>>

(***************************************************************************)
(* Inputs                                                                  *)
(***************************************************************************)
TitleOk == <<"a", "b", "c">>
TitleShort == <<" ", "a", "b", " ">>
Titles == {TitleOk, TitleShort}
Descriptions == {"d"}
Statuses == {"completed", "bogus"}

\* werkzeug.security: a salted one-way hash and its check
generate_password_hash(password, salt) == [salt |-> salt, digest |-> <<salt, password>>]
check_password_hash(pwhash, password) == pwhash.digest = <<pwhash.salt, password>>

\* the users collection after "ann" and "bob" have registered
RegisteredUsers ==
    {[_id |-> 1, username |-> "ann",
      password_hash |-> generate_password_hash("longpassword", "s1")],
     [_id |-> 2, username |-> "bob",
      password_hash |-> generate_password_hash("other12345", "s2")]}
\* the subjects of the bearer tokens issued to them: str(user.id)
Identities == {Str(u._id) : u \in RegisteredUsers}
TaskIds == {Str(o) : o \in 1..MaxTasks} \cup {Malformed}

\* values a body gives the owner field: the identity of "bob"
OwnerValues == {Str(2)}
TaskFields == {"title", "description", "status", "user_id"}
AllBodies ==
    {Restrict(b, D) :
        b \in [title : Titles, description : Descriptions, status : Statuses,
               user_id : OwnerValues],
        D \in SUBSET TaskFields}
\* request bodies of PATCH: the empty object, objects with one field, and
\* one that names _id
PatchBodies ==
    {b \in AllBodies : Cardinality(DOMAIN b) <= 1 /\ b # [title |-> TitleOk]}
    \cup {[_id |-> "x"]}
\* request bodies of PUT: objects with the three required fields, one with
\* the owner field as well, and two that lack a required field
PutBodies ==
    {[title |-> p[1], description |-> "d", status |-> p[2]] :
        p \in {<<TitleOk, "completed">>, <<TitleShort, "completed">>, <<TitleOk, "bogus">>}}
    \cup {[title |-> TitleOk, description |-> "d", status |-> "completed", user_id |-> o] :
            o \in OwnerValues}
    \cup {[status |-> "completed"], [title |-> TitleOk, status |-> "bogus"]}
\* request bodies of POST /tasks
CreateBodies ==
    {b \in AllBodies :
        /\ "user_id" \notin DOMAIN b
        /\ \/ Cardinality(DOMAIN b) <= 1
           \/ ("title" \in DOMAIN b /\ b.title = TitleOk)}

(***************************************************************************)
(* app/services/task_service.py                                            *)
(* Each method is an operator from the collection and its arguments to     *)
(* [exc, ret, coll]: the exception raised (NoExc if none), the value       *)
(* returned (Optional) and the collection afterwards.                      *)
(***************************************************************************)
Result(exc, ret, coll) == [exc |-> exc, ret |-> ret, coll |-> coll]

\* Mutant: the status argument is dropped and every task starts pending.
TaskService_create_task_pending(coll, oid, user_id, title, description, status) ==
    IF ~validate_task_data(title, status)
    THEN Result(CustomException("Invalid task data", 400), <<>>, coll)
    ELSE Result(NoExc, <<Str(oid)>>,
                coll \cup {[_id |-> oid, title |-> title[1], description |-> description,
                            status |-> "pending", user_id |-> user_id]})

\* title is Optional[str]; oid is the ObjectId insert_one assigns
TaskService_create_task(coll, oid, user_id, title, description, status) ==
    IF ~validate_task_data(title, status)
    THEN Result(CustomException("Invalid task data", 400), <<>>, coll)
    ELSE Result(NoExc, <<Str(oid)>>,
                coll \cup {[_id |-> oid, title |-> title[1], description |-> description,
                            status |-> status, user_id |-> user_id]})

TaskService_get_user_tasks(coll, user_id) ==
    LET ts == Ordered(find(coll, [user_id |-> user_id]))
    IN  [i \in 1..Len(ts) |->
            [id |-> Str(ts[i]._id), title |-> ts[i].title, status |-> ts[i].status]]

\* Mutant: the lookup filters by _id alone.
TaskService_get_task_by_id_unscoped(coll, user_id, task_id) ==
    IF InvalidId(task_id)
    THEN Result(CustomException("Invalid task ID format", 400), <<>>, coll)
    ELSE LET task == find_one(coll, [_id |-> ObjectId(task_id)])
         IN  IF task = <<>>
             THEN Result(CustomException("Task not found or access denied", 404), <<>>, coll)
             ELSE Result(NoExc,
                         <<[id |-> Str(task[1]._id), title |-> task[1].title,
                            description |-> task[1].description,
                            status |-> task[1].status]>>,
                         coll)

TaskService_get_task_by_id(coll, user_id, task_id) ==
    IF InvalidId(task_id)
    THEN Result(CustomException("Invalid task ID format", 400), <<>>, coll)
    ELSE LET task == find_one(coll, [_id |-> ObjectId(task_id), user_id |-> user_id])
         IN  IF task = <<>>
             THEN Result(CustomException("Task not found or access denied", 404), <<>>, coll)
             ELSE Result(NoExc,
                         <<[id |-> Str(task[1]._id), title |-> task[1].title,
                            description |-> task[1].description,
                            status |-> task[1].status]>>,
                         coll)

\* Mutant: update_one with upsert, which inserts a document when none matches.
update_one_upsert(coll, filter, updates, emptySetOk) ==
    LET m == find_one(coll, filter)
        blank == [title |-> <<>>, description |-> "", status |-> "pending"]
    IN  IF DOMAIN updates = {} /\ ~emptySetOk THEN Result(PyError("WriteError"), <<>>, coll)
        ELSE IF "_id" \in DOMAIN updates THEN Result(PyError("WriteError"), <<>>, coll)
        ELSE IF m = <<>> THEN Result(NoExc, <<>>, coll \cup {Merge(Merge(blank, filter), updates)})
        ELSE Result(NoExc, <<>>, (coll \ {m[1]}) \cup {Merge(m[1], updates)})

\* update_one(filter, {'$set': updates}).  The store rejects a $set of _id to
\* a different value; an empty $set is an error or a no-op depending on the
\* server (emptySetOk).
update_one(coll, filter, updates, emptySetOk) ==
    LET m == find_one(coll, filter)
    IN  IF DOMAIN updates = {} /\ ~emptySetOk THEN Result(PyError("WriteError"), <<>>, coll)
        ELSE IF m = <<>> THEN Result(NoExc, <<>>, coll)
        ELSE IF "_id" \in DOMAIN updates THEN Result(PyError("WriteError"), <<>>, coll)
        ELSE Result(NoExc, <<>>, (coll \ {m[1]}) \cup {Merge(m[1], updates)})

\* Mutant: the status of the update is not validated.
TaskService_update_task_unvalidated(coll, user_id, task_id, updates, emptySetOk) ==
    LET existing_task == TaskService_get_task_by_id(coll, user_id, task_id)
    IN  IF existing_task.exc # NoExc THEN existing_task
        ELSE LET u == update_one(coll,
                                 [_id |-> ObjectId(task_id), user_id |-> user_id],
                                 updates, emptySetOk)
             IN  IF u.exc # NoExc THEN u
                 ELSE TaskService_get_task_by_id(u.coll, user_id, task_id)

TaskService_update_task(coll, user_id, task_id, updates, emptySetOk) ==
    IF "status" \in DOMAIN updates /\ updates.status \notin allowed_statuses
    THEN Result(CustomException("Invalid status value", 400), <<>>, coll)
    ELSE LET existing_task == TaskService_get_task_by_id(coll, user_id, task_id)
         IN  IF existing_task.exc # NoExc THEN existing_task
             ELSE LET u == update_one(coll,
                                      [_id |-> ObjectId(task_id), user_id |-> user_id],
                                      updates, emptySetOk)
                  IN  IF u.exc # NoExc THEN u
                      ELSE TaskService_get_task_by_id(u.coll, user_id, task_id)

TaskService_delete_task(coll, user_id, task_id) ==
    IF InvalidId(task_id) THEN Result(PyError("InvalidId"), <<>>, coll)
    ELSE LET m == find_one(coll, [_id |-> ObjectId(task_id), user_id |-> user_id])
         IN  IF m = <<>> THEN Result(NoExc, <<FALSE>>, coll)
             ELSE Result(NoExc, <<TRUE>>, coll \ {m[1]})

(***************************************************************************)
(* app/routes/tasks.py: one action per route.  u is get_jwt_identity(),    *)
(* data is request.get_json().  resp records the request and its outcome:  *)
(*   op, caller, task_id   the route, the token's identity, the path id    *)
(*   named                 the fields of the body of an update the service *)
(*                         carried out ({} otherwise)                      *)
(*   bad_status            the body gives a status outside the enum        *)
(*   changed               the request changed the tasks collection        *)
(*   svc                   what the service call returned (Optional)       *)
(*   raised                the exception that left the handler             *)
(*   http, body            status and JSON body the client receives        *)
(*   error                 JSON body of an error response (Optional)       *)
(***************************************************************************)
\* `a, b = value` succeeds only when iterating value yields two items
UnpackPair(n) == n = 2
\* len(str(ObjectId)): 12 bytes in hexadecimal
ObjectIdHexLen == 2 * 12

Request(op, caller, task_id, data) ==
    [op |-> op, caller |-> caller, task_id |-> task_id, data |-> data]

BadStatus(data) == "status" \in DOMAIN data /\ data.status \notin allowed_statuses

TaskResponse(req, changed, svc, exc, status, body) ==
    [op |-> req.op, caller |-> req.caller, task_id |-> req.task_id,
     named |-> IF req.op \in {"update_task_put", "update_task_patch"} /\ svc # <<>>
               THEN DOMAIN req.data ELSE {},
     bad_status |-> BadStatus(req.data),
     changed |-> changed, svc |-> svc, raised |-> exc,
     http |-> IF exc = NoExc THEN status ELSE handle_global_error(exc),
     error |-> IF exc = NoExc THEN <<>> ELSE handle_global_error_body(exc),
     body |-> body]

\* history variable: tasks in coll keep their creator, new ones get u
Creators(coll, u) ==
    [o \in {d._id : d \in coll} |-> IF o \in DOMAIN creator THEN creator[o] ELSE u]

\* history variable: the task an update or delete request names is no longer fresh
Put(f, k, v) == [x \in DOMAIN f \cup {k} |-> IF x = k THEN v ELSE f[x]]
Named(task_id) ==
    IF InvalidId(task_id) THEN fresh
    ELSE Restrict(fresh, DOMAIN fresh \ {ObjectId(task_id)})

create_task(u, data) ==
    LET req == Request("create_task", u, NoId, data)
        title == Get(data, "title")
        description == GetDefault(data, "description", "")
        status == GetDefault(data, "status", "pending")
    IN  IF ~validate_task_data(title, status)
        THEN /\ resp' = TaskResponse(req, FALSE, <<>>,
                                     CustomException("Invalid task data", 400), 0, <<>>)
             /\ UNCHANGED <<upd, users, nextUserOid, reg, tasks, nextTaskOid, creator, fresh>>
        ELSE \E r \in {TaskService_create_task(tasks, nextTaskOid, u, title, description,
                                               status)} :
                 /\ nextTaskOid <= MaxTasks
                 /\ tasks' = r.coll
                 /\ nextTaskOid' = IF r.exc = NoExc THEN nextTaskOid + 1 ELSE nextTaskOid
                 /\ creator' = Creators(r.coll, u)
                 /\ fresh' = IF r.exc = NoExc THEN Put(fresh, nextTaskOid, data) ELSE fresh
                 /\ resp' =
                      IF r.exc # NoExc
                      THEN TaskResponse(req, FALSE, <<>>, r.exc, 0, <<>>)
                      ELSE IF ~UnpackPair(ObjectIdHexLen)
                      THEN TaskResponse(req, TRUE, r.ret, PyError("ValueError"), 0, <<>>)
                      ELSE TaskResponse(req, TRUE, r.ret, CustomException("error", 400),
                                        0, <<>>)
                 /\ UNCHANGED <<upd, users, nextUserOid, reg>>

get_tasks(u) ==
    \E ts \in {TaskService_get_user_tasks(tasks, u)} :
        /\ resp' = TaskResponse(Request("get_tasks", u, NoId, <<>>), FALSE, <<ts>>,
                                NoExc, 200, <<ts>>)
        /\ UNCHANGED <<upd, users, nextUserOid, reg, tasks, nextTaskOid, creator, fresh>>

get_task(u, task_id) ==
    \E r \in {TaskService_get_task_by_id(tasks, u, task_id)} :
        /\ resp' = IF r.exc # NoExc
                   THEN TaskResponse(Request("get_task", u, task_id, <<>>), FALSE, <<>>,
                                     r.exc, 0, <<>>)
                   ELSE TaskResponse(Request("get_task", u, task_id, <<>>), FALSE, r.ret,
                                     NoExc, 200, r.ret)
        /\ UNCHANGED <<upd, users, nextUserOid, reg, tasks, nextTaskOid, creator, fresh>>

\* the part PUT and PATCH share: the service call and `task, error = ...`
UpdateAndRespond(req, emptySetOk) ==
    \E r \in {TaskService_update_task(tasks, req.caller, req.task_id, req.data,
                                      emptySetOk)} :
        /\ tasks' = r.coll
        /\ creator' = Creators(r.coll, req.caller)
        /\ fresh' = Named(req.task_id)
        /\ resp' =
             IF r.exc # NoExc THEN TaskResponse(req, r.coll # tasks, <<>>, r.exc, 0, <<>>)
             ELSE IF ~UnpackPair(Cardinality(DOMAIN r.ret[1]))
             THEN TaskResponse(req, r.coll # tasks, r.ret, PyError("ValueError"), 0, <<>>)
             ELSE TaskResponse(req, r.coll # tasks, r.ret, CustomException("error", 400),
                               0, <<>>)
        /\ UNCHANGED <<upd, users, nextUserOid, reg, nextTaskOid>>

required_fields == {"title", "description", "status"}

update_task_put(u, task_id, data, emptySetOk) ==
    LET req == Request("update_task_put", u, task_id, data)
    IN  IF ~(required_fields \subseteq DOMAIN data)
        THEN /\ resp' = TaskResponse(req, FALSE, <<>>,
                                     CustomException("Missing required fields", 400),
                                     0, <<>>)
             /\ fresh' = Named(task_id)
             /\ UNCHANGED <<upd, users, nextUserOid, reg, tasks, nextTaskOid, creator>>
        ELSE UpdateAndRespond(req, emptySetOk)

update_task_patch(u, task_id, updates, emptySetOk) ==
    UpdateAndRespond(Request("update_task_patch", u, task_id, updates), emptySetOk)

delete_task(u, task_id) ==
    LET req == Request("delete_task", u, task_id, <<>>)
    IN  \E r \in {TaskService_delete_task(tasks, u, task_id)} :
            /\ tasks' = r.coll
            /\ creator' = Creators(r.coll, u)
            /\ fresh' = Named(task_id)
            /\ resp' =
                 IF r.exc # NoExc THEN TaskResponse(req, FALSE, <<>>, r.exc, 0, <<>>)
                 ELSE IF ~r.ret[1]
                 THEN TaskResponse(req, FALSE, r.ret,
                                   CustomException("Task not found", 404), 0, <<>>)
                 ELSE TaskResponse(req, TRUE, r.ret, NoExc, 200, <<"Task deleted">>)
            /\ UNCHANGED <<upd, users, nextUserOid, reg, nextTaskOid>>

(***************************************************************************)
(* The task API used by the two registered users                           *)
(***************************************************************************)
\* whether the server accepts an empty $set matters only for an empty body
EmptySetModes(data) == IF DOMAIN data = {} THEN BOOLEAN ELSE {TRUE}

NoResponse ==
    TaskResponse(Request("none", NoId, NoId, <<>>), FALSE, <<>>, NoExc, 0, <<>>)
Idle == [pc |-> "idle"]

Init ==
    /\ users = RegisteredUsers
    /\ nextUserOid = Cardinality(RegisteredUsers) + 1
    /\ reg = [w \in 1..NumWorkers |-> Idle]
    /\ upd = [w \in 1..NumWorkers |-> Idle]
    /\ tasks = {}
    /\ nextTaskOid = 1
    /\ creator = <<>>
    /\ fresh = <<>>
    /\ resp = NoResponse

Next ==
    \/ \E u \in Identities, data \in CreateBodies : create_task(u, data)
    \/ \E u \in Identities : get_tasks(u)
    \/ \E u \in Identities, t \in TaskIds : get_task(u, t)
    \/ \E u \in Identities, t \in TaskIds, data \in PutBodies :
          update_task_put(u, t, data, TRUE)
    \/ \E u \in Identities, t \in TaskIds, data \in PatchBodies :
          \E e \in EmptySetModes(data) : update_task_patch(u, t, data, e)
    \/ \E u \in Identities, t \in TaskIds : delete_task(u, t)

Spec == Init /\ [][Next]_vars

(***************************************************************************)
(* app/models/user.py                                                      *)
(***************************************************************************)
\* User.__init__(self, username, password_hash, id=None) called with keyword
\* arguments kwargs: a keyword it does not declare is a TypeError
User_init_params == {"username", "password_hash", "id"}
User_init(kwargs) ==
    IF DOMAIN kwargs \subseteq User_init_params
       /\ {"username", "password_hash"} \subseteq DOMAIN kwargs
    THEN Result(NoExc,
                <<[username |-> kwargs.username, password_hash |-> kwargs.password_hash,
                   id |-> Get(kwargs, "id")]>>,
                {})
    ELSE Result(PyError("TypeError"), <<>>, {})

\* cls(**user_data) if user_data else None
User_get_by_username(coll, username) ==
    LET user_data == find_one(coll, [username |-> username])
    IN  IF user_data = <<>> THEN Result(NoExc, <<>>, {}) ELSE User_init(user_data[1])

check_password(user, password) == check_password_hash(user.password_hash, password)

\* flask_jwt_extended.create_access_token(identity): a token with that subject
create_access_token(identity) == [sub |-> identity]

(***************************************************************************)
(* app/routes/auth.py.  A POST /register request runs on a worker in two   *)
(* steps, one per store operation of User.create: the validation and       *)
(* find_one, then insert_one and the response.  Requests of different      *)
(* workers interleave between the two.                                     *)
(***************************************************************************)
AuthResponse(op, data, exc, status, body) ==
    [op |-> op, data |-> data, raised |-> exc,
     http |-> IF exc = NoExc THEN status ELSE handle_global_error(exc),
     error |-> IF exc = NoExc THEN <<>> ELSE handle_global_error_body(exc),
     body |-> body]

\* `not s or len(s) < n` for an Optional[str]
TooShort(s, n) == s = <<>> \/ Len(s[1]) < n
MinUsername == 3
MinPassword == 8

\* requests that passed find_one and have not inserted yet
Checked == {w \in DOMAIN reg : reg[w].pc = "checked"}

register(w, data) ==
    LET username == Get(data, "username")
        password == Get(data, "password")
        fail(exc) ==
            /\ resp' = AuthResponse("register", data, exc, 0, <<>>)
            /\ UNCHANGED <<upd, users, nextUserOid, reg, tasks, nextTaskOid, creator, fresh>>
    IN  /\ reg[w].pc = "idle"
        /\ IF TooShort(username, MinUsername)
           THEN fail(CustomException("Username must be at least 3 characters", 400))
           ELSE IF TooShort(password, MinPassword)
           THEN fail(CustomException("Password must be at least 8 characters", 400))
           \* User.create
           ELSE IF Len(username[1]) < MinUsername
           THEN fail(CustomException("Username must be at least 3 characters", 400))
           ELSE IF Len(password[1]) < MinPassword
           THEN fail(CustomException("Password must be at least 8 characters", 400))
           ELSE IF find_one(users, [username |-> username[1]]) # <<>>
           THEN fail(CustomException("Username already exists", 409))
           ELSE /\ nextUserOid + Cardinality(Checked) <= MaxUsers
                /\ reg' = [reg EXCEPT ![w] = [pc |-> "checked", data |-> data]]
                /\ UNCHANGED <<upd, users, nextUserOid, tasks, nextTaskOid, creator, fresh, resp>>

register_insert(w, salt) ==
    /\ reg[w].pc = "checked"
    /\ users' = users \cup
                  {[_id |-> nextUserOid, username |-> reg[w].data.username,
                    password_hash |-> generate_password_hash(reg[w].data.password, salt)]}
    /\ nextUserOid' = nextUserOid + 1
    /\ reg' = [reg EXCEPT ![w] = Idle]
    /\ resp' = AuthResponse("register", reg[w].data, NoExc, 201, <<"User created">>)
    /\ UNCHANGED <<upd, tasks, nextTaskOid, creator, fresh>>

login(data) ==
    LET username == Get(data, "username")
        password == Get(data, "password")
    IN  /\ resp' =
             IF username = <<>> \/ username[1] = "" \/ password = <<>> \/ password[1] = ""
             THEN AuthResponse("login", data,
                               CustomException("Username and password are required", 400),
                               0, <<>>)
             ELSE LET user == User_get_by_username(users, username[1])
                  IN  IF user.exc # NoExc THEN AuthResponse("login", data, user.exc, 0, <<>>)
                      ELSE IF user.ret = <<>> \/ ~check_password(user.ret[1], password[1])
                      THEN AuthResponse("login", data,
                                        CustomException("Invalid credentials", 401), 0, <<>>)
                      ELSE AuthResponse("login", data, NoExc, 200,
                                        <<create_access_token(Str(user.ret[1].id[1]))>>)
        /\ UNCHANGED <<upd, users, nextUserOid, reg, tasks, nextTaskOid, creator, fresh>>

(***************************************************************************)
(* Registration and login, from empty collections                          *)
(***************************************************************************)
Usernames == {"ann", "bob", "al"}
Passwords == {"longpassword", "other12345", "short"}
Salts == {"s1", "s2"}
Credentials ==
    {Restrict(c, D) : c \in [username : Usernames, password : Passwords],
                      D \in SUBSET {"username", "password"}}

InitAuth ==
    /\ users = {}
    /\ nextUserOid = 1
    /\ reg = [w \in 1..NumWorkers |-> Idle]
    /\ upd = [w \in 1..NumWorkers |-> Idle]
    /\ tasks = {}
    /\ nextTaskOid = 1
    /\ creator = <<>>
    /\ fresh = <<>>
    /\ resp = NoResponse

NextAuth ==
    \/ \E w \in 1..NumWorkers, data \in Credentials : register(w, data)
    \/ \E w \in 1..NumWorkers, salt \in Salts : register_insert(w, salt)
    \/ \E data \in Credentials : login(data)

SpecAuth == InitAuth /\ [][NextAuth]_vars

(***************************************************************************)
(* TaskService.update_task step by step.  A PUT or PATCH request runs on a *)
(* worker, one step per store operation: the route's checks with the       *)
(* status validation and the first get_task_by_id (find_one), then         *)
(* update_one, then the second get_task_by_id (find_one), then the route's *)
(* unpacking and response.  POST /tasks and DELETE are one store operation *)
(* each (insert_one, delete_one).  Requests of different workers           *)
(* interleave between the steps.                                           *)
(***************************************************************************)
\* the calls that have reached pc
InFlight(pc) == {w \in DOMAIN upd : upd[w].pc = pc}

\* the route up to the first find_one of update_task
update_task_find(w, req, emptySetOk) ==
    LET fail(exc) ==
            /\ resp' = TaskResponse(req, FALSE, <<>>, exc, 0, <<>>)
            /\ UNCHANGED <<upd, users, nextUserOid, reg, tasks, nextTaskOid, creator>>
    IN  /\ upd[w].pc = "idle"
        /\ fresh' = Named(req.task_id)
        /\ IF req.op = "update_task_put" /\ ~(required_fields \subseteq DOMAIN req.data)
           THEN fail(CustomException("Missing required fields", 400))
           ELSE IF "status" \in DOMAIN req.data /\ req.data.status \notin allowed_statuses
           THEN fail(CustomException("Invalid status value", 400))
           ELSE \E existing_task \in {TaskService_get_task_by_id(tasks, req.caller,
                                                                 req.task_id)} :
                   IF existing_task.exc # NoExc THEN fail(existing_task.exc)
                   ELSE /\ upd' = [upd EXCEPT ![w] = [pc |-> "found", req |-> req,
                                                      emptySetOk |-> emptySetOk]]
                        /\ UNCHANGED <<users, nextUserOid, reg, tasks, nextTaskOid, creator,
                                       resp>>

\* mongo.db.tasks.update_one of update_task
update_task_update_one(w) ==
    LET c == upd[w]
    IN  /\ c.pc = "found"
        /\ \E u \in {update_one(tasks,
                                [_id |-> ObjectId(c.req.task_id), user_id |-> c.req.caller],
                                c.req.data, c.emptySetOk)} :
              /\ tasks' = u.coll
              /\ creator' = Creators(u.coll, c.req.caller)
              /\ IF u.exc # NoExc
                 THEN /\ upd' = [upd EXCEPT ![w] = Idle]
                      /\ resp' = TaskResponse(c.req, FALSE, <<>>, u.exc, 0, <<>>)
                 ELSE /\ upd' = [upd EXCEPT ![w] = [pc |-> "updated", req |-> c.req,
                                                    changed |-> u.coll # tasks]]
                      /\ UNCHANGED resp
        /\ UNCHANGED <<users, nextUserOid, reg, nextTaskOid, fresh>>

\* the final get_task_by_id of update_task
update_task_return(w) ==
    LET c == upd[w]
    IN  /\ c.pc = "updated"
        /\ upd' = [upd EXCEPT ![w] =
                      [pc |-> "returned", req |-> c.req, changed |-> c.changed,
                       result |-> TaskService_get_task_by_id(tasks, c.req.caller,
                                                             c.req.task_id)]]
        /\ UNCHANGED <<users, nextUserOid, reg, tasks, nextTaskOid, creator, fresh, resp>>

\* the route after update_task: `task, error = ...` and the response
update_task_respond(w) ==
    LET c == upd[w]
    IN  /\ c.pc = "returned"
        /\ upd' = [upd EXCEPT ![w] = Idle]
        /\ resp' =
             IF c.result.exc # NoExc
             THEN TaskResponse(c.req, c.changed, <<>>, c.result.exc, 0, <<>>)
             ELSE IF ~UnpackPair(Cardinality(DOMAIN c.result.ret[1]))
             THEN TaskResponse(c.req, c.changed, c.result.ret, PyError("ValueError"), 0, <<>>)
             ELSE TaskResponse(c.req, c.changed, c.result.ret, CustomException("error", 400),
                               0, <<>>)
        /\ UNCHANGED <<users, nextUserOid, reg, tasks, nextTaskOid, creator, fresh>>

\* the interleaved requests: one user ("ann") working on her tasks
InterleavedCallers == {Str(1)}
InterleavedTaskIds == {Str(o) : o \in 1..MaxTasks}
InterleavedCreateBodies == {[title |-> TitleOk]}
InterleavedPutBodies == {[title |-> TitleOk, description |-> "d", status |-> "completed"]}
InterleavedPatchBodies == {[status |-> "completed"], [user_id |-> Str(2)]}

NextInterleaved ==
    \/ \E u \in InterleavedCallers, data \in InterleavedCreateBodies : create_task(u, data)
    \/ \E u \in InterleavedCallers, t \in InterleavedTaskIds : delete_task(u, t)
    \/ \E w \in 1..NumWorkers, u \in InterleavedCallers, t \in InterleavedTaskIds,
          data \in InterleavedPutBodies :
          update_task_find(w, Request("update_task_put", u, t, data), TRUE)
    \/ \E w \in 1..NumWorkers, u \in InterleavedCallers, t \in InterleavedTaskIds,
          data \in InterleavedPatchBodies :
          update_task_find(w, Request("update_task_patch", u, t, data), TRUE)
    \/ \E w \in 1..NumWorkers : update_task_update_one(w)
    \/ \E w \in 1..NumWorkers : update_task_return(w)
    \/ \E w \in 1..NumWorkers : update_task_respond(w)

SpecInterleaved == Init /\ [][NextInterleaved]_vars

(***************************************************************************)
(* Properties of the task API                                              *)
(***************************************************************************)
UpdateOps == {"update_task_put", "update_task_patch"}
ByIdOps == {"get_task", "delete_task"} \cup UpdateOps

NotFoundMessage == "Task not found or access denied"
IsError(r, code) == r.raised.type = "CustomException" /\ r.raised.status_code = code
\* the request was refused for its body alone
BodyRefused(r) ==
    /\ IsError(r, 400)
    /\ r.raised.message \in {"Invalid status value", "Missing required fields"}

\* the stored documents with ObjectId oid
Stored(coll, oid) == {d \in coll : d._id = oid}
\* the path id of r names a stored task that u did not create
NamesTaskOfOther(r, u) ==
    /\ r.task_id.hex
    /\ ObjectId(r.task_id) \in DOMAIN creator
    /\ creator[ObjectId(r.task_id)] # u

\* C1: a task created by A is never returned to another user B by getTask,
\* listTasks, updateTask or deleteTask; B's getTask/updateTask/deleteTask on its
\* id fail with NotFoundError (404), or with the 400 of a refused body, and do
\* not change the collection.
C1_Isolation ==
    [][/\ (resp'.op \in ByIdOps /\ NamesTaskOfOther(resp', resp'.caller))
            => /\ resp'.svc \in {<<>>, <<FALSE>>}
               /\ IsError(resp', 404) \/ BodyRefused(resp')
               /\ tasks' = tasks
       /\ resp'.op = "get_tasks"
            => \A i \in 1..Len(resp'.svc[1]) :
                  creator[ObjectId(resp'.svc[1][i].id)] = resp'.caller]_vars

\* C10: the stored owner of every task is the identity that created it.
C10_OwnerImmutable == \A d \in tasks : d.user_id = creator[d._id]

\* what POST /tasks stores for a valid body, given the ObjectId the store assigns
NewTask(oid, u, data) ==
    [_id |-> oid, title |-> data.title,
     description |-> GetDefault(data, "description", ""),
     status |-> GetDefault(data, "status", "pending"), user_id |-> u]
ValidCreate(data) ==
    /\ "title" \in DOMAIN data
    /\ Len(strip(data.title)) >= 3
    /\ GetDefault(data, "status", "pending") \in {"pending", "in-progress", "completed"}

\* C4: POST /tasks with a title of trimmed length >= 3 and a status of the enum
\* persists exactly one new task {title, description, status, owner = caller}
\* and responds 201 with the id of that task.
C4_CreateResponds201 ==
    [][\A u \in Identities, data \in CreateBodies :
          (create_task(u, data) /\ ValidCreate(data))
             => /\ tasks' = tasks \cup {NewTask(nextTaskOid, u, data)}
                /\ Stored(tasks, nextTaskOid) = {}
                /\ resp'.http = 201
                /\ resp'.body = <<Str(nextTaskOid)>>]_vars

\* the task GET /tasks/{id} should show for a task created with body data
Expected(task_id, data) ==
    [id |-> task_id, title |-> data.title,
     description |-> GetDefault(data, "description", ""),
     status |-> GetDefault(data, "status", "pending")]
\* resp is the creator's getTask of a task nothing has operated on since its creation
FreshGet ==
    /\ resp.op = "get_task"
    /\ resp.task_id.hex
    /\ ObjectId(resp.task_id) \in DOMAIN fresh
    /\ resp.caller = creator[ObjectId(resp.task_id)]

\* C5: getTask by the creator of a task, with no update or delete request on
\* that task since createTask, returns the title, description and status of
\* the createTask request, description "" and status pending when omitted.
C5_RoundTrip ==
    FreshGet => resp.svc = <<Expected(resp.task_id, fresh[ObjectId(resp.task_id)])>>

C5_Witness ==
    /\ FreshGet
    /\ DOMAIN fresh[ObjectId(resp.task_id)] = {"title"}
    /\ resp.svc # <<>>
    /\ resp.svc[1].description = ""
    /\ resp.svc[1].status = "pending"
    /\ Cardinality(tasks) = MaxTasks

\* C6: an update the service carried out for the owner changes, on the task
\* named, only the fields the body names, and changes no other task.
C6_PartialUpdate ==
    [][(resp'.op \in UpdateOps /\ resp'.svc # <<>>)
          => LET oid == ObjectId(resp'.task_id)
             IN  /\ {d \in tasks : d._id # oid} = {d \in tasks' : d._id # oid}
                 /\ Cardinality(Stored(tasks, oid)) = 1
                 /\ Cardinality(Stored(tasks', oid)) = 1
                 /\ \A o \in Stored(tasks, oid), n \in Stored(tasks', oid) :
                       /\ o.user_id = resp'.caller
                       /\ DOMAIN o \subseteq DOMAIN n
                       /\ \A k \in DOMAIN n \ resp'.named :
                             k \in DOMAIN o /\ n[k] = o[k]]_vars

C6_Witness ==
    /\ resp.op = "update_task_patch"
    /\ resp.named = {"status"}
    /\ resp.changed
    /\ resp.svc # <<>>
    /\ resp.svc[1].status = "completed"
    /\ resp.svc[1].description = "d"
    /\ Cardinality(tasks) = MaxTasks

\* C7: PUT or PATCH with a status outside the enum fails with ValidationError
\* (400) and leaves the collection unchanged, whatever the task id names.
C7_InvalidStatusRejected ==
    [][(resp'.op \in UpdateOps /\ resp'.bad_status)
          => /\ IsError(resp', 400)
             /\ resp'.svc = <<>>
             /\ tasks' = tasks]_vars

C7_Witness ==
    /\ resp.op \in UpdateOps
    /\ resp.bad_status
    /\ resp.raised = CustomException("Invalid status value", 400)
    /\ resp.task_id.hex
    /\ \E d \in Stored(tasks, ObjectId(resp.task_id)) : d.user_id = resp.caller

\* the documents getTask may show its caller
Visible(r) ==
    IF InvalidId(r.task_id) THEN {}
    ELSE {d \in Stored(tasks, ObjectId(r.task_id)) : d.user_id = r.caller}
Projection(d) ==
    [id |-> Str(d._id), title |-> d.title, description |-> d.description,
     status |-> d.status]

C9_Delete ==
    [][resp'.op = "delete_task"
          => /\ tasks' = tasks \ Visible(resp')
             /\ Cardinality(Visible(resp')) <= 1
             /\ tasks' = tasks => IsError(resp', 404)]_vars

\* C11: every stored task has a title whose trimmed length is at least 3 and
\* a status in {pending, in-progress, completed}.
C11_StoredTasksValid ==
    \A d \in tasks :
        /\ Len(strip(d.title)) >= 3
        /\ d.status \in {"pending", "in-progress", "completed"}

\* C12: a CustomException with status s in {400, 401, 404, 409} raised while
\* handling a request is answered with HTTP status s and the body {error,
\* status_code = s, request_id}; any other exception is answered with 500 and
\* the generic message.
C12_ErrorTranslation ==
    resp.raised # NoExc
       => IF resp.raised.type = "CustomException"
             /\ resp.raised.status_code \in {400, 401, 404, 409}
          THEN /\ resp.http = resp.raised.status_code
               /\ resp.error = <<[error |-> resp.raised.message,
                                  status_code |-> resp.raised.status_code,
                                  request_id |-> RequestId]>>
          ELSE /\ resp.http = 500
               /\ resp.error = <<[error |-> "Internal Server Error", status_code |-> 500,
                                  request_id |-> RequestId]>>

\* the methods of the task API that write: POST, PUT, PATCH, DELETE
WriteOps == {"create_task", "delete_task"} \cup UpdateOps
Success == {200, 201}

\* C13: a POST/PUT/PATCH/DELETE task request answered with a non-success
\* status leaves the tasks collection exactly as it was before the request.
C13_FailedRequestAtomic ==
    [][(resp'.op \in WriteOps /\ resp'.http \notin Success) => tasks' = tasks]_vars


(***************************************************************************)
(* Properties of update_task interleaved with delete_task                  *)
(***************************************************************************)
\* the ObjectIds the store has assigned that name no stored task
Removed(coll, next) == {o \in 1..(next - 1) : Stored(coll, o) = {}}

\* C14: with update_task (find, update_one, find) interleaved with delete_task
\* of the same owner, a task that has been removed is absent in every later
\* state, and an update_task whose final read finds the task removed ends with
\* NotFoundError (404) and returns no task projection.
C14_NoResurrection ==
    [][/\ Removed(tasks, nextTaskOid) \subseteq Removed(tasks', nextTaskOid')
       /\ \A w \in InFlight("updated") :
             (upd'[w].pc = "returned" /\ ObjectId(upd[w].req.task_id) \in Removed(tasks, nextTaskOid))
                => /\ upd'[w].result.exc = CustomException(NotFoundMessage, 404)
                   /\ upd'[w].result.ret = <<>>
       /\ \A w \in InFlight("returned") :
             (upd'[w].pc = "idle" /\ upd[w].result.exc # NoExc)
                => resp'.raised = upd[w].result.exc /\ resp'.svc = <<>>]_vars

\* a delete removed the task after update_one had modified it, and the final
\* read of that update_task has run
C14_Witness ==
    \E w \in InFlight("returned") :
        /\ upd[w].changed
        /\ ObjectId(upd[w].req.task_id) \in Removed(tasks, nextTaskOid)
        /\ upd[w].result.exc = CustomException(NotFoundMessage, 404)

(***************************************************************************)
(* Properties of registration and login                                    *)
(***************************************************************************)
\* C2: whatever the interleaving of register calls, the users collection
\* never holds two records with the same username.
C2_UsernameUnique == \A a \in users, b \in users : a.username = b.username => a = b

\* the stored users the credentials of r match
Matching(r) ==
    IF {"username", "password"} \subseteq DOMAIN r.data
    THEN {u \in users : /\ u.username = r.data.username
                        /\ check_password_hash(u.password_hash, r.data.password)}
    ELSE {}

\* C3: login answers 200 with a token whose subject is the stored user's id
\* iff a user with that username exists and the password matches its hash;
\* otherwise it fails with AuthError (401), or with the 400 of a missing
\* field.
C3_Login ==
    resp.op = "login"
       => IF Matching(resp) # {}
          THEN /\ resp.http = 200
               /\ \E u \in Matching(resp) : resp.body = <<create_access_token(Str(u._id))>>
          ELSE /\ resp.body = <<>>
               /\ \/ IsError(resp, 401)
                  \/ IsError(resp, 400) /\ resp.raised.message = "Username and password are required"

====
